---- MODULE Spec2Model ----
(***************************************************************************)
(* Model of ImageCompression.cpp: runLengthEncode, buildHuffmanTree and    *)
(* huffmanEncode, as state machines over small byte buffers.               *)
(*                                                                         *)
(* A byte buffer (std::vector<uchar>) is a sequence of naturals below 256. *)
(* A HuffmanNode* is a sequence of length 0 (nullptr) or 1 (the node it    *)
(* points to); a node is a record with the fields of struct HuffmanNode.   *)
(* A code string (std::string of '0'/'1') is a sequence of 0s and 1s.      *)
(***************************************************************************)
EXTENDS Naturals, Sequences, FiniteSets, TLC

VARIABLES
    pc,           \* position of the running call
    rleData,      \* runLengthEncode: parameter data
    i,            \* runLengthEncode: loop index i (1-based here)
    count,        \* runLengthEncode: count
    rleEncoded,   \* runLengthEncode: encodedData
    data,         \* huffmanEncode / buildHuffmanTree: parameter data
    freq,         \* buildHuffmanTree: freq
    pq,           \* buildHuffmanTree: pq
    root,         \* buildHuffmanTree: root
    huffmanCode,  \* huffmanEncode: huffmanCode
    encodedStr,   \* huffmanEncode: encodedStr
    encodedData,  \* huffmanEncode: encodedData (the returned buffer)
    runNo,        \* 1 during the first call, 2 during the second call
    prevIn,       \* the first call's input buffer
    prevStr,      \* the first call's encodedStr
    prevOut       \* the first call's returned buffer

vars == <<pc, rleData, i, count, rleEncoded, data, freq, pq, root, huffmanCode,
          encodedStr, encodedData, runNo, prevIn, prevStr, prevOut>>

rleVars == <<rleData, i, count, rleEncoded>>
huffVars == <<data, freq, pq, root, huffmanCode, encodedStr, encodedData>>
histVars == <<runNo, prevIn, prevStr, prevOut>>

(***************************************************************************)
(* Bounds of the model and constants of the program.                       *)
(***************************************************************************)
MaxByte == 2          \* buffers hold the byte values 0..MaxByte
MaxLen == 5           \* longest buffer given to a single call
MaxPad == 1           \* longest buffer after a long run
LongRun == 300        \* a run longer than the counter can hold
MaxLenTwice == 4      \* longest buffer when two calls are compared
MaxLenCompress == 2   \* longest buffer when two compressions are compared

CounterMod == 256     \* uchar count: arithmetic is modulo 2^8
CounterMax == 255     \* largest value of a uchar
GroupBits == 8        \* std::bitset<8>, substr(i, 8), i += 8

Bytes == 0..MaxByte

SeqsUpTo(S, n) == UNION {[1..k -> S] : k \in 0..n}

Repeat(v, n) == [k \in 1..n |-> v]

Buffers == SeqsUpTo(Bytes, MaxLen)

\* aaaabbbcc
ScenarioBuffers == {Repeat(0, 4) \o Repeat(1, 3) \o Repeat(2, 2)}

LongBuffers ==
    {Repeat(v, n) \o s :
        v \in Bytes, n \in {CounterMax, LongRun}, s \in SeqsUpTo(Bytes, MaxPad)}

RleInputs == Buffers \cup ScenarioBuffers \cup LongBuffers

NullPtr == <<>>
Ptr(n) == <<n>>
Deref(p) == p[1]

(***************************************************************************)
(* runLengthEncode                                                         *)
(***************************************************************************)
NextCountStuck(c) == c

\* ++count on a uchar
NextCount(c) == (c + 1) % CounterMod

\* the condition of the inner while loop, i being 1-based
RunContinues(d, idx) == idx + 1 <= Len(d) /\ d[idx] = d[idx + 1]

\* the for loop's condition holds: uchar count = 1
RleEnter ==
    /\ pc = "rle"
    /\ i <= Len(rleData)
    /\ count' = 1
    /\ pc' = "rle_scan"
    /\ UNCHANGED <<rleData, i, rleEncoded, huffVars, histVars>>

\* one iteration of the inner while loop
RleScan ==
    /\ pc = "rle_scan"
    /\ RunContinues(rleData, i)
    /\ count' = NextCount(count)
    /\ i' = i + 1
    /\ UNCHANGED <<pc, rleData, rleEncoded, huffVars, histVars>>

\* the inner while loop exits: both push_back calls, then the for loop's ++i
RleEmit ==
    /\ pc = "rle_scan"
    /\ ~RunContinues(rleData, i)
    /\ rleEncoded' = rleEncoded \o <<rleData[i], count>>
    /\ i' = i + 1
    /\ pc' = "rle"
    /\ UNCHANGED <<rleData, count, huffVars, histVars>>

\* the for loop exits and encodedData is returned
RleReturn ==
    /\ pc = "rle"
    /\ i > Len(rleData)
    /\ pc' = "rle_done"
    /\ UNCHANGED <<rleVars, huffVars, histVars>>

(***************************************************************************)
(* buildHuffmanTree                                                        *)
(***************************************************************************)
HuffmanNode(d, f) == [data |-> d, freq |-> f, left |-> NullPtr, right |-> NullPtr]

HuffmanNodeCompareLess(l, r) == l.freq < r.freq

HuffmanNodeCompare(l, r) == l.freq > r.freq

\* freq[ch]++ on an unordered_map<uchar, int>
Incr(f, ch) ==
    IF ch \in DOMAIN f THEN [f EXCEPT ![ch] = @ + 1] ELSE (ch :> 1) @@ f

\* for (uchar ch : data) freq[ch]++
RECURSIVE CountLoop(_, _, _)
CountLoop(d, k, f) ==
    IF k > Len(d) THEN f ELSE CountLoop(d, k + 1, Incr(f, d[k]))

CountFreq ==
    /\ pc = "count"
    /\ freq' = CountLoop(data, 1, <<>>)
    /\ pc' = "push"
    /\ UNCHANGED <<rleVars, data, pq, root, huffmanCode, encodedStr,
                   encodedData, histVars>>

\* the keys of freq the range-for has visited so far
Pushed == {n.data : n \in pq}

\* one iteration of for (auto pair : freq), in the map's unspecified order
PushLeaf ==
    /\ pc = "push"
    /\ \E ch \in (DOMAIN freq) \ Pushed :
          pq' = pq \cup {HuffmanNode(ch, freq[ch])}
    /\ UNCHANGED <<pc, rleVars, data, freq, root, huffmanCode, encodedStr,
                   encodedData, histVars>>

PushEnd ==
    /\ pc = "push"
    /\ Pushed = DOMAIN freq
    /\ pc' = "merge"
    /\ UNCHANGED <<rleVars, huffVars, histVars>>

\* the nodes pq.top() may return: no node of q is ordered after them
Top(q) == {n \in q : \A m \in q : ~HuffmanNodeCompare(n, m)}

MergeSumLeft(l, r) == l.freq

MergeSum(l, r) == l.freq + r.freq

\* new HuffmanNode('\0', sum) with both children set
Parent(l, r) ==
    [data |-> 0, freq |-> MergeSum(l, r), left |-> Ptr(l), right |-> Ptr(r)]

\* one iteration of while (pq.size() != 1), the queue holding two nodes or more
MergeStep ==
    /\ pc = "merge"
    /\ Cardinality(pq) >= 2
    /\ \E l \in Top(pq) :
          \E r \in Top(pq \ {l}) :
             pq' = (pq \ {l, r}) \cup {Parent(l, r)}
    /\ UNCHANGED <<pc, rleVars, data, freq, root, huffmanCode, encodedStr,
                   encodedData, histVars>>

\* while (pq.size() != 1) on an empty queue: pq.top() reads an empty vector
MergeEmpty ==
    /\ pc = "merge"
    /\ Cardinality(pq) = 0
    /\ pc' \in {"crashed", "undefined"}
    /\ UNCHANGED <<rleVars, huffVars, histVars>>

LeftStr(str) == Append(str, 0)

RightStrZero(str) == Append(str, 0)

RightStr(str) == Append(str, 1)

IsLeaf(n) == n.left = NullPtr /\ n.right = NullPtr

\* the lambda encode: the code map after encode(node, str)
RECURSIVE Encode(_, _, _)
Encode(p, str, code) ==
    IF p = NullPtr THEN code
    ELSE LET n == Deref(p)
             c0 == IF IsLeaf(n) THEN (n.data :> str) @@ code ELSE code
             c1 == Encode(n.left, LeftStr(str), c0)
         IN  Encode(n.right, RightStr(str), c1)

\* the while loop exits; root = pq.top(); encode(root, "")
DeriveCodes ==
    /\ pc = "merge"
    /\ Cardinality(pq) = 1
    /\ \E n \in Top(pq) :
          /\ root' = Ptr(n)
          /\ huffmanCode' = Encode(Ptr(n), <<>>, huffmanCode)
    /\ pc' = "concat"
    /\ UNCHANGED <<rleVars, data, freq, pq, encodedStr, encodedData, histVars>>

(***************************************************************************)
(* huffmanEncode                                                           *)
(***************************************************************************)
\* huffmanCode[ch] on an unordered_map<uchar, std::string>
CodeOf(code, ch) == IF ch \in DOMAIN code THEN code[ch] ELSE <<>>

\* for (uchar ch : data) encodedStr += huffmanCode[ch]
RECURSIVE ConcatLoop(_, _, _, _)
ConcatLoop(d, k, code, str) ==
    IF k > Len(d) THEN str
    ELSE ConcatLoop(d, k + 1, code, str \o CodeOf(code, d[k]))

ConcatCodes ==
    /\ pc = "concat"
    /\ encodedStr' = ConcatLoop(data, 1, huffmanCode, <<>>)
    /\ pc' = "pack"
    /\ UNCHANGED <<rleVars, data, freq, pq, root, huffmanCode, encodedData,
                   histVars>>

\* encodedStr.substr(pos, 8), pos being 1-based
Substr(str, pos) ==
    SubSeq(str, pos, IF pos + GroupBits - 1 <= Len(str)
                     THEN pos + GroupBits - 1 ELSE Len(str))

\* std::bitset<8>(s).to_ulong(): s read as a binary numeral
RECURSIVE ToULong(_)
ToULong(s) ==
    IF s = <<>> THEN 0
    ELSE 2 * ToULong(SubSeq(s, 1, Len(s) - 1)) + s[Len(s)]

\* for (i = 0; i < encodedStr.size(); i += 8) push_back(bits.to_ulong())
RECURSIVE PackLoop(_, _, _)
PackLoop(str, pos, out) ==
    IF pos > Len(str) THEN out
    ELSE PackLoop(str, pos + GroupBits, Append(out, ToULong(Substr(str, pos))))

PackBits ==
    /\ pc = "pack"
    /\ encodedData' = PackLoop(encodedStr, 1, <<>>)
    /\ pc' = "done"
    /\ UNCHANGED <<rleVars, data, freq, pq, root, huffmanCode, encodedStr,
                   histVars>>

(***************************************************************************)
(* Calls                                                                   *)
(***************************************************************************)
FreshRle(buf) ==
    /\ rleData = buf
    /\ i = 1
    /\ count = 1
    /\ rleEncoded = <<>>

FreshHuffman(buf) ==
    /\ data = buf
    /\ freq = <<>>
    /\ pq = {}
    /\ root = NullPtr
    /\ huffmanCode = <<>>
    /\ encodedStr = <<>>
    /\ encodedData = <<>>

NoHistory ==
    /\ runNo = 1
    /\ prevIn = <<>>
    /\ prevStr = <<>>
    /\ prevOut = <<>>

\* a call of huffmanEncode(data)
Init ==
    /\ pc = "count"
    /\ \E buf \in Buffers : FreshHuffman(buf)
    /\ FreshRle(<<>>)
    /\ NoHistory

\* a call of runLengthEncode(data)
InitRLE ==
    /\ pc = "rle"
    /\ \E buf \in RleInputs : FreshRle(buf)
    /\ FreshHuffman(<<>>)
    /\ NoHistory

\* the first of two calls of huffmanEncode
InitTwice ==
    /\ pc = "count"
    /\ \E buf \in SeqsUpTo(Bytes, MaxLenTwice) : FreshHuffman(buf)
    /\ FreshRle(<<>>)
    /\ NoHistory

\* the first of two compressions: runLengthEncode, then huffmanEncode
InitCompress ==
    /\ pc = "rle"
    /\ \E buf \in SeqsUpTo(Bytes, MaxLenCompress) : FreshRle(buf)
    /\ FreshHuffman(<<>>)
    /\ NoHistory

\* compress: the buffer runLengthEncode returned is given to huffmanEncode
Compose ==
    /\ pc = "rle_done"
    /\ data' = rleEncoded
    /\ pc' = "count"
    /\ UNCHANGED <<rleVars, freq, pq, root, huffmanCode, encodedStr,
                   encodedData, histVars>>

\* huffmanEncode has returned and is called a second time
HuffmanAgain ==
    /\ pc = "done"
    /\ runNo = 1
    /\ runNo' = 2
    /\ prevIn' = data
    /\ prevStr' = encodedStr
    /\ prevOut' = encodedData
    /\ pc' = "count"
    /\ data' \in SeqsUpTo(Bytes, MaxLenTwice)
    /\ freq' = <<>>
    /\ pq' = {}
    /\ root' = NullPtr
    /\ huffmanCode' = <<>>
    /\ encodedStr' = <<>>
    /\ encodedData' = <<>>
    /\ UNCHANGED rleVars

\* the compression has returned and a second buffer is compressed
CompressAgain ==
    /\ pc = "done"
    /\ runNo = 1
    /\ runNo' = 2
    /\ prevIn' = rleData
    /\ prevStr' = encodedStr
    /\ prevOut' = encodedData
    /\ pc' = "rle"
    /\ rleData' \in SeqsUpTo(Bytes, MaxLenCompress)
    /\ i' = 1
    /\ count' = 1
    /\ rleEncoded' = <<>>
    /\ data' = <<>>
    /\ freq' = <<>>
    /\ pq' = {}
    /\ root' = NullPtr
    /\ huffmanCode' = <<>>
    /\ encodedStr' = <<>>
    /\ encodedData' = <<>>

NextRLE == RleEnter \/ RleScan \/ RleEmit \/ RleReturn

Next ==
    \/ CountFreq
    \/ PushLeaf
    \/ PushEnd
    \/ MergeStep
    \/ MergeEmpty
    \/ DeriveCodes
    \/ ConcatCodes
    \/ PackBits

NextTwice == Next \/ HuffmanAgain

NextCompress == NextRLE \/ Compose \/ Next \/ CompressAgain

Spec == Init /\ [][Next]_vars
SpecRLE == InitRLE /\ [][NextRLE]_vars
SpecTwice == InitTwice /\ [][NextTwice]_vars
SpecCompress == InitCompress /\ [][NextCompress]_vars

(***************************************************************************)
(* Properties                                                              *)
(***************************************************************************)
\* RLE decoding: each (value, count) pair becomes count copies of value
RECURSIVE Expand(_)
Expand(enc) ==
    IF Len(enc) < 2 THEN <<>>
    ELSE Repeat(enc[1], enc[2]) \o Expand(SubSeq(enc, 3, Len(enc)))

\* no run of identical consecutive bytes of d is longer than m
RunsAtMost(d, m) ==
    \A k \in 1..Len(d) : k + m <= Len(d) => \E j \in k..(k + m - 1) : d[j] # d[j + 1]

Pairs(enc) == 1..(Len(enc) \div 2)

IsPrefix(s, t) == Len(s) <= Len(t) /\ SubSeq(t, 1, Len(s)) = s

RECURSIVE SumFreq(_)
SumFreq(f) ==
    IF DOMAIN f = {} THEN 0
    ELSE LET ch == CHOOSE c \in DOMAIN f : TRUE
         IN  f[ch] + SumFreq([c \in (DOMAIN f) \ {ch} |-> f[c]])

RECURSIVE SumNodes(_)
SumNodes(q) ==
    IF q = {} THEN 0
    ELSE LET n == CHOOSE m \in q : TRUE IN n.freq + SumNodes(q \ {n})

CodesDerived == pc \in {"concat", "pack", "done"}

\* C1: the compressed output determines the input: two compressions
\* (runLengthEncode, then huffmanEncode) that return the same buffer were
\* given the same buffer.
CompressInjective ==
    (runNo = 2 /\ pc = "done" /\ prevOut = encodedData) => prevIn = rleData

\* C2: runLengthEncode returns only counts in 1..255, and the pairs expand to
\* the input, so the counts of a run longer than 255 sum to its length
\* instead of wrapping modulo 256.
RleSplitsLongRuns ==
    pc = "rle_done" =>
        /\ \A k \in Pairs(rleEncoded) : rleEncoded[2 * k] \in 1..CounterMax
        /\ Expand(rleEncoded) = rleData

\* C3: two calls of huffmanEncode on the same buffer return the same bytes.
HuffmanDeterministic ==
    (runNo = 2 /\ pc = "done" /\ prevIn = data) => prevOut = encodedData

\* C4: for a non-empty input, no code of the table is a prefix of the code of
\* a different symbol.
PrefixFree ==
    (CodesDerived /\ data # <<>>) =>
        \A a \in DOMAIN huffmanCode : \A b \in DOMAIN huffmanCode :
            a # b => ~IsPrefix(huffmanCode[a], huffmanCode[b])

PrefixFreeWitness ==
    /\ pc = "done"
    /\ Cardinality(DOMAIN huffmanCode) = 3
    /\ \E a \in DOMAIN huffmanCode : Len(huffmanCode[a]) = 1
    /\ \E b \in DOMAIN huffmanCode : Len(huffmanCode[b]) = 2

\* C5: for a non-empty input with one distinct byte value the tree has a
\* branch and the symbol's code has length at least 1.
SingleSymbolHasBranch ==
    (CodesDerived /\ Cardinality(DOMAIN freq) = 1) =>
        /\ ~IsLeaf(Deref(root))
        /\ \A a \in DOMAIN huffmanCode : Len(huffmanCode[a]) >= 1

\* C6: for an empty input the merge loop is not entered: the top of an empty
\* priority queue is never read.
EmptyInputShortCircuits ==
    data = <<>> => pc \notin {"crashed", "undefined"}

\* C7: the packed output records the number of valid bits: two bit strings
\* of different length never pack to the same bytes.
PackingKeepsLength ==
    (runNo = 2 /\ pc = "done" /\ Len(prevStr) # Len(encodedStr))
        => prevOut # encodedData

\* C8: for a non-empty input, a symbol that occurs strictly more often than
\* another has a code that is no longer.
ShorterForFrequent ==
    (CodesDerived /\ data # <<>>) =>
        \A a \in DOMAIN freq : \A b \in DOMAIN freq :
            freq[a] > freq[b] => Len(huffmanCode[a]) <= Len(huffmanCode[b])

ShorterForFrequentWitness ==
    /\ pc = "done"
    /\ \E a \in DOMAIN freq : \E b \in DOMAIN freq :
          freq[a] > freq[b] /\ Len(huffmanCode[a]) < Len(huffmanCode[b])

\* C9: for an input whose runs are all at most 255 long, runLengthEncode
\* returns whole (value, count) pairs, every count at least 1, consecutive
\* pairs with different values, and the pairs expand to the input.
RleOnePairPerRun ==
    (pc = "rle_done" /\ RunsAtMost(rleData, CounterMax)) =>
        /\ Len(rleEncoded) % 2 = 0
        /\ \A k \in Pairs(rleEncoded) : rleEncoded[2 * k] >= 1
        /\ \A k \in Pairs(rleEncoded) :
              2 * k + 1 <= Len(rleEncoded)
                  => rleEncoded[2 * k - 1] # rleEncoded[2 * k + 1]
        /\ Expand(rleEncoded) = rleData

\* aaaabbbcc gives (a,4),(b,3),(c,2)
RleOnePairPerRunWitness ==
    /\ pc = "rle_done"
    /\ rleData \in ScenarioBuffers
    /\ rleEncoded = <<0, 4, 1, 3, 2, 2>>

FreqConservedState ==
    data # <<>> =>
        /\ pc # "count" => SumFreq(freq) = Len(data)
        /\ pc = "merge" => SumNodes(pq) = Len(data)
        /\ CodesDerived => root # NullPtr /\ Deref(root).freq = Len(data)

FreqConservedStep ==
    /\ (pc = "merge" /\ pq' # pq) => Cardinality(pq') = Cardinality(pq) - 1
    /\ (pc = "merge" /\ pc' = "concat") => Cardinality(pq) = 1

\* C10: for a non-empty input the frequency counts sum to the input length,
\* during the merge loop the frequencies of the queued nodes sum to the input
\* length, the root's frequency is the input length, and each merge step
\* leaves one node fewer in the queue until one node remains.
FrequencyConservation == [](FreqConservedState) /\ [][FreqConservedStep]_vars

FrequencyConservationWitness ==
    /\ pc = "done"
    /\ Cardinality(DOMAIN freq) = 3
    /\ Len(data) = MaxLen
    /\ Deref(root).freq = MaxLen

====
